---- MODULE Spec2Model ----
(***************************************************************************)
(* A model of the data inspector's session state (App.tsx): ingestion      *)
(* (record location, flattening, id assignment, key statistics), the       *)
(* selection set, and the asynchronous transform / fetch requests whose    *)
(* responses are merged back into the working set.                         *)
(***************************************************************************)
EXTENDS Integers, Sequences, FiniteSets, TLC

VARIABLES
    data,         \* useState<DataRecord[]>      the WorkingSet
    allKeys,      \* useState<string[]>          KeyOrder
    keyDensity,   \* useState<Record<..>>        KeyDensity
    selectedIds,  \* useState<Set<string|number>> SelectionSet
    loading,      \* useState(false)
    error,        \* useState<string|null>
    rawInput,     \* useState('')                text of the paste area
    viewMode,     \* useState<'list'|'ingest'>
    searchTerm,   \* useState('')
    pending,      \* requests awaiting their response (axios promises)
    ops,          \* how many ingestions and requests the session has made so far
    last          \* history: the last ingestion, request, response or export

vars == <<data, allKeys, keyDensity, selectedIds, loading, error, rawInput,
          viewMode, searchTerm, pending, ops, last>>

----------------------------------------------------------------------------
(* Bounds of the model *)

MaxItems == 2      \* longest array of items in an enumerated document
MaxProps == 2      \* most properties of an enumerated wrapper object
MaxClock == 1      \* Date.now() answers with a time in 0..MaxClock
MaxPending == 1    \* most requests in flight at once
MaxOps == 2        \* most successful ingestions and requests made in one session

----------------------------------------------------------------------------
(* JSON values (RawValue).  Every value is a record of the same shape so    *)
(* that any two values can be compared: k is the type tag, n the number or *)
(* boolean, s the string, a the array's elements, o the object's           *)
(* properties in enumeration order, each [key, val].                       *)

JUndef    == [k |-> "undefined", n |-> 0, s |-> "", a |-> <<>>, o |-> <<>>]
JNull     == [k |-> "null", n |-> 0, s |-> "", a |-> <<>>, o |-> <<>>]
JNum(i)   == [k |-> "num", n |-> i, s |-> "", a |-> <<>>, o |-> <<>>]
JStr(str) == [k |-> "str", n |-> 0, s |-> str, a |-> <<>>, o |-> <<>>]
JBool(b)  == [k |-> "bool", n |-> IF b THEN 1 ELSE 0, s |-> "", a |-> <<>>, o |-> <<>>]
JArr(els) == [k |-> "arr", n |-> 0, s |-> "", a |-> els, o |-> <<>>]
JObj(ps)  == [k |-> "obj", n |-> 0, s |-> "", a |-> <<>>, o |-> ps]
P(key, val) == [key |-> key, val |-> val]

\* JavaScript truthiness, as `||` tests it
Truthy(v) ==
    CASE v.k = "undefined" -> FALSE
      [] v.k = "null"      -> FALSE
      [] v.k = "bool"      -> v.n = 1
      [] v.k = "num"       -> v.n # 0
      [] v.k = "str"       -> v.s # ""
      [] OTHER             -> TRUE

\* a || b
Or(a, b) == IF Truthy(a) THEN a ELSE b

\* Array.isArray(v)
IsArray(v) == v.k = "arr"

\* typeof v === 'object' && v !== null && !Array.isArray(v)
IsPlainObject(v) == v.k = "obj"

\* The properties of a JS object held as a sequence of [key, val]
HasKey(ps, key) == \E i \in 1..Len(ps) : ps[i].key = key
GetProp(ps, key) ==
    IF HasKey(ps, key)
    THEN ps[CHOOSE i \in 1..Len(ps) : ps[i].key = key].val
    ELSE JUndef
\* obj[key] = val: an existing property keeps its place, a new one is appended
SetProp(ps, key, val) ==
    IF HasKey(ps, key)
    THEN [i \in 1..Len(ps) |-> IF ps[i].key = key THEN P(key, val) ELSE ps[i]]
    ELSE Append(ps, P(key, val))
KeysOf(ps) == [i \in 1..Len(ps) |-> ps[i].key]
KeySet(ps) == {ps[i].key : i \in 1..Len(ps)}

\* Object.assign(target, source)
RECURSIVE ObjectAssign(_, _)
ObjectAssign(target, source) ==
    IF source = <<>> THEN target
    ELSE ObjectAssign(SetProp(target, Head(source).key, Head(source).val), Tail(source))

\* Object.keys(v) / v[key] for the values an item can be: an object's own
\* keys, an array's indices, nothing for a number or a boolean.
IndexKeys(els) == [i \in 1..Len(els) |-> ToString(i - 1)]
ObjectKeys(v) ==
    CASE v.k = "obj" -> KeysOf(v.o)
      [] v.k = "arr" -> IndexKeys(v.a)
      [] OTHER       -> <<>>
Member(v, key) ==
    CASE v.k = "obj" -> GetProp(v.o, key)
      [] v.k = "arr" ->
            IF \E i \in 1..Len(v.a) : ToString(i - 1) = key
            THEN v.a[CHOOSE i \in 1..Len(v.a) : ToString(i - 1) = key]
            ELSE JUndef
      [] OTHER       -> JUndef
\* Object.keys(null) and Object.keys(undefined) throw a TypeError
KeysThrow(v) == v.k \in {"null", "undefined"}

----------------------------------------------------------------------------
(* flattenObject *)

\* a reduce that leaves out the properties holding null
RECURSIVE FlattenFromSkipping(_, _, _, _)
FlattenFromSkipping(obj, prefix, i, acc) ==
    LET keys == ObjectKeys(obj)
        pre  == IF prefix # "" THEN prefix \o "." ELSE ""
    IN  IF i > Len(keys) THEN acc
        ELSE LET key == keys[i]
                 v == Member(obj, key)
             IN  FlattenFromSkipping(obj, prefix, i + 1,
                    IF IsPlainObject(v)
                    THEN ObjectAssign(acc, FlattenFromSkipping(v, pre \o key, 1, <<>>))
                    ELSE IF v = JNull THEN acc
                    ELSE SetProp(acc, pre \o key, v))

\* a reduce that keeps a nested object under its own key as well
RECURSIVE FlattenFromKeeping(_, _, _, _)
FlattenFromKeeping(obj, prefix, i, acc) ==
    LET keys == ObjectKeys(obj)
        pre  == IF prefix # "" THEN prefix \o "." ELSE ""
    IN  IF i > Len(keys) THEN acc
        ELSE LET key == keys[i]
                 v == Member(obj, key)
             IN  FlattenFromKeeping(obj, prefix, i + 1,
                    IF IsPlainObject(v)
                    THEN ObjectAssign(SetProp(acc, pre \o key, v),
                                      FlattenFromKeeping(v, pre \o key, 1, <<>>))
                    ELSE SetProp(acc, pre \o key, v))

RECURSIVE FlattenFrom(_, _, _, _)
\* the reduce over Object.keys(obj), from the i-th key on, with accumulator acc
FlattenFrom(obj, prefix, i, acc) ==
    LET keys == ObjectKeys(obj)
        pre  == IF prefix # "" THEN prefix \o "." ELSE ""
    IN  IF i > Len(keys) THEN acc
        ELSE LET key == keys[i]
                 v == Member(obj, key)
             IN  FlattenFrom(obj, prefix, i + 1,
                    IF IsPlainObject(v)
                    THEN ObjectAssign(acc, FlattenFrom(v, pre \o key, 1, <<>>))
                    ELSE SetProp(acc, pre \o key, v))

flattenObject(obj, prefix) == FlattenFrom(obj, prefix, 1, <<>>)

----------------------------------------------------------------------------
(* processIngestedData: the record locator *)

\* candidates without `data`
candidatesWithoutData == <<"task_results", "items", "results", "records">>

candidates == <<"task_results", "data", "items", "results", "records">>

RECURSIVE CandidateScan(_, _)
\* for (const key of candidates) { if (Array.isArray(json[key])) { dataToSet = json[key]; break } }
CandidateScan(json, i) ==
    IF i > Len(candidates) THEN <<>>
    ELSE IF IsArray(GetProp(json.o, candidates[i])) THEN GetProp(json.o, candidates[i]).a
    ELSE CandidateScan(json, i + 1)

\* Object.values(json).find(v => Array.isArray(v)), undefined when there is none
FindArrayValue(json) ==
    IF \E i \in 1..Len(json.o) : IsArray(json.o[i].val)
    THEN json.o[CHOOSE i \in 1..Len(json.o) :
                    /\ IsArray(json.o[i].val)
                    /\ \A j \in 1..(i - 1) : ~IsArray(json.o[j].val)].val
    ELSE JUndef

\* dataToSet when line 171 is reached
Locate(json) ==
    IF IsArray(json) THEN json.a
    ELSE IF json.k = "obj" THEN
        LET scanned == CandidateScan(json, 1)
        IN  IF Len(scanned) = 0 /\ Len(json.o) > 0
            THEN LET arrayValue == FindArrayValue(json)
                 IN  IF Truthy(arrayValue) THEN arrayValue.a ELSE scanned
            ELSE scanned
    ELSE <<>>

----------------------------------------------------------------------------
(* processIngestedData: ids, density, key order *)

\* `gen-${idx}-${Date.now()}`
GenId(idx, stamp) == "gen-" \o ToString(idx) \o "-" \o ToString(stamp)

\* one element of dataToSet.map(...): idx is the 0-based index
ProcessItem(item, idx, stamp) ==
    LET flat == flattenObject(item, "")
    IN  SetProp(flat, "id",
                Or(Or(Member(item, "id"), GetProp(flat, "id")), JStr(GenId(idx, stamp))))

Processed(items, stamps) ==
    [i \in 1..Len(items) |-> ProcessItem(items[i], i - 1, stamps[i])]

\* density[k] = (density[k] || 0) + 1
\* a count that stays at one
BumpOnce(density, key) ==
    [x \in (DOMAIN density) \cup {key} |-> IF x = key THEN 1 ELSE density[x]]

Bump(density, key) ==
    IF key \in DOMAIN density /\ density[key] # 0
    THEN [density EXCEPT ![key] = @ + 1]
    ELSE [x \in (DOMAIN density) \cup {key} |-> IF x = key THEN 1 ELSE density[x]]

RECURSIVE BumpAll(_, _)
BumpAll(density, keys) ==
    IF keys = <<>> THEN density ELSE BumpAll(Bump(density, Head(keys)), Tail(keys))

RECURSIVE DensityFrom(_, _, _)
DensityFrom(processed, i, density) ==
    IF i > Len(processed) THEN density
    ELSE DensityFrom(processed, i + 1, BumpAll(density, KeysOf(processed[i])))

EmptyDensity == [x \in {} |-> 0]
Density(processed) == DensityFrom(processed, 1, EmptyDensity)

\* processed.flatMap(Object.keys)
RECURSIVE FlatMapKeys(_)
FlatMapKeys(processed) ==
    IF processed = <<>> THEN <<>>
    ELSE KeysOf(Head(processed)) \o FlatMapKeys(Tail(processed))

\* Array.from(new Set(seq)): the first occurrence of each element, in order
RECURSIVE Unique(_)
Unique(seq) ==
    IF seq = <<>> THEN <<>>
    ELSE LET front == Unique(SubSeq(seq, 1, Len(seq) - 1))
             x == seq[Len(seq)]
         IN  IF \E i \in 1..Len(front) : front[i] = x THEN front ELSE Append(front, x)

priority == <<"id", "status", "input_text", "input.text", "text", "generated_sql",
              "model_output.cleaned_sql">>

\* priority.indexOf(key): 0-based, -1 when absent
IndexOf(seq, x) ==
    IF \E i \in 1..Len(seq) : seq[i] = x
    THEN (CHOOSE i \in 1..Len(seq) : seq[i] = x /\ \A j \in 1..(i - 1) : seq[j] # x) - 1
    ELSE -1

\* The keys that occur in the model, in collation order: a.localeCompare(b)
\* compares the places of a and b in it.
Collation == <<"0", "1", "2", "a", "a.b", "id", "input", "input.text", "m", "status",
               "tags", "text", "x", "y">>
Place(key) == CHOOSE i \in 1..Len(Collation) : Collation[i] = key
localeCompare(a, b) ==
    IF Place(a) < Place(b) THEN -1 ELSE IF Place(a) > Place(b) THEN 1 ELSE 0

\* density[k] || 0
DensityOr0(density, key) == IF key \in DOMAIN density THEN density[key] ELSE 0

\* a comparator that puts the rarer key first
CompareAscending(a, b, density) ==
    LET pA == IndexOf(priority, a)
        pB == IndexOf(priority, b)
    IN  IF pA # -1 /\ pB # -1 THEN pA - pB
        ELSE IF pA # -1 THEN -1
        ELSE IF pB # -1 THEN 1
        ELSE IF DensityOr0(density, b) # DensityOr0(density, a)
             THEN DensityOr0(density, a) - DensityOr0(density, b)
        ELSE localeCompare(a, b)

\* the comparator of keys.sort
Compare(a, b, density) ==
    LET pA == IndexOf(priority, a)
        pB == IndexOf(priority, b)
    IN  IF pA # -1 /\ pB # -1 THEN pA - pB
        ELSE IF pA # -1 THEN -1
        ELSE IF pB # -1 THEN 1
        ELSE IF DensityOr0(density, b) # DensityOr0(density, a)
             THEN DensityOr0(density, b) - DensityOr0(density, a)
        ELSE localeCompare(a, b)

\* Array.prototype.sort is a stable sort by the comparator: insertion sort
RECURSIVE InsertSorted(_, _, _)
InsertSorted(sorted, x, density) ==
    IF sorted = <<>> THEN <<x>>
    ELSE IF Compare(x, sorted[Len(sorted)], density) < 0
         THEN Append(InsertSorted(SubSeq(sorted, 1, Len(sorted) - 1), x, density),
                     sorted[Len(sorted)])
         ELSE Append(sorted, x)

RECURSIVE SortKeys(_, _)
SortKeys(keys, density) ==
    IF keys = <<>> THEN <<>>
    ELSE InsertSorted(SortKeys(SubSeq(keys, 1, Len(keys) - 1), density),
                      keys[Len(keys)], density)

\* keys.filter(k => k !== 'id' && k !== 'status')
RECURSIVE FilterKeys(_)
FilterKeys(keys) ==
    IF keys = <<>> THEN <<>>
    ELSE IF Head(keys) # "id" /\ Head(keys) # "status"
         THEN <<Head(keys)>> \o FilterKeys(Tail(keys))
         ELSE FilterKeys(Tail(keys))

KeyOrderOf(processed) ==
    FilterKeys(SortKeys(Unique(FlatMapKeys(processed)), Density(processed)))

----------------------------------------------------------------------------
(* Texts: what the paste area or an uploaded file holds.  JSON.parse throws *)
(* on a text that is not well-formed JSON and returns the document          *)
(* otherwise.                                                               *)

EmptyText == [t |-> "empty", doc |-> JUndef]
BadText   == [t |-> "bad", doc |-> JUndef]
TextOf(doc) == [t |-> "json", doc |-> doc]
ParseThrows(text) == text.t # "json"
JSONParse(text) == text.doc

----------------------------------------------------------------------------
(* The documents the model ingests *)

Ix1    == JObj(<<P("x", JNum(1))>>)
Ix2    == JObj(<<P("x", JNum(2))>>)
Ir1    == JObj(<<P("id", JStr("r1")), P("a", JObj(<<P("b", JNum(2))>>))>>)
Ir2    == JObj(<<P("y", JNull), P("id", JStr("r2")), P("x", JNum(1))>>)
Izero  == JObj(<<P("id", JNum(0)), P("x", JNum(1))>>)
Iempty == JObj(<<P("id", JStr("")), P("text", JStr("t"))>>)
Idup   == JObj(<<P("id", JStr("r1")), P("status", JStr("done")), P("y", JNull)>>)
Inest  == JObj(<<P("input", JObj(<<P("text", JStr("q"))>>)),
                 P("tags", JArr(<<JObj(<<P("x", JNum(1))>>)>>)), P("id", JNum(7)),
                 P("x", JNum(5))>>)
Icoll  == JObj(<<P("a", JObj(<<P("b", JNum(1))>>)), P("a.b", JNum(3)), P("y", JNum(1))>>)
Igen   == JObj(<<P("id", JStr("gen-1-0"))>>)
Inum   == JNum(5)
Iarr   == JArr(<<JNum(1)>>)
Iflat  == JObj(<<P("id", JStr("r3")), P("a.b", JNum(2)),
                 P("tags", JArr(<<JObj(<<P("x", JNum(1))>>)>>)), P("y", JNull)>>)
Ihollow == JObj(<<P("m", JObj(<<>>)), P("x", JNum(1))>>)

Items == {Ix1, Ix2, Ir1, Ir2, Izero, Iempty, Idup, Inest, Icoll, Igen, Inum, Iarr, Iflat,
          Ihollow, JNull}

\* all sequences over S of length at most n
RECURSIVE SeqsUpTo(_, _)
SeqsUpTo(S, n) ==
    IF n = 0 THEN {<<>>}
    ELSE LET shorter == SeqsUpTo(S, n - 1)
         IN  shorter \cup {Append(q, x) : q \in shorter, x \in S}

ArrayDocs == {JArr(q) : q \in SeqsUpTo(Items, MaxItems)}

PropNames == {"task_results", "data", "items", "foo", "meta"}
PropVals  == {JArr(<<>>), JArr(<<Ix1>>), JArr(<<Ir1, Izero>>), JNum(1)}
DistinctKeys(ps) == \A i, j \in 1..Len(ps) : ps[i].key = ps[j].key => i = j
ObjectDocs ==
    {JObj(ps) : ps \in {q \in SeqsUpTo({P(key, v) : key \in PropNames, v \in PropVals},
                                       MaxProps) : DistinctKeys(q)}}

ScalarDocs == {JNull, JNum(1), JStr("r1")}

\* every text the ingestion claims are checked on
AllTexts == {BadText} \cup {TextOf(d) : d \in ArrayDocs \cup ObjectDocs \cup ScalarDocs}

----------------------------------------------------------------------------
(* processIngestedData as a whole: what it sets, or that it throws *)

\* Date.now() at each of the n items of one pass: times that never decrease
StampsOf(n) ==
    {st \in [1..n -> 0..MaxClock] : \A i, j \in 1..n : i <= j => st[i] <= st[j]}

IngestThrows(json) == \E i \in 1..Len(Locate(json)) : KeysThrow(Locate(json)[i])

NoError == "null"

\* processIngestedData with a failure branch that empties the session
processIngestedDataClearing(json, stamps) ==
    LET dataToSet == Locate(json)
        processed == Processed(dataToSet, stamps)
    IN  IF Len(dataToSet) > 0
        THEN /\ data' = processed
             /\ keyDensity' = Density(processed)
             /\ allKeys' = KeyOrderOf(processed)
             /\ viewMode' = "list"
             /\ error' = NoError
        ELSE /\ error' = "Could not find a valid array of data in the JSON."
             /\ data' = <<>>
             /\ keyDensity' = EmptyDensity
             /\ allKeys' = <<>>
             /\ UNCHANGED viewMode

\* the state after processIngestedData(json) returned normally
processIngestedData(json, stamps) ==
    LET dataToSet == Locate(json)
        processed == Processed(dataToSet, stamps)
    IN  IF Len(dataToSet) > 0
        THEN /\ data' = processed
             /\ keyDensity' = Density(processed)
             /\ allKeys' = KeyOrderOf(processed)
             /\ viewMode' = "list"
             /\ error' = NoError
        ELSE /\ error' = "Could not find a valid array of data in the JSON."
             /\ UNCHANGED <<data, keyDensity, allKeys, viewMode>>

----------------------------------------------------------------------------
(* The session: the texts a user ingests, the backend and the engine *)

R1  == JObj(<<P("id", JStr("r1")), P("x", JNum(1))>>)
R2  == JObj(<<P("id", JStr("r2")), P("a", JObj(<<P("b", JNum(2))>>))>>)
R1b == JObj(<<P("x", JNum(9)), P("id", JStr("r1"))>>)

SessionDocs == {JArr(<<R1, R2>>), JObj(<<P("data", JArr(<<R1b>>))>>),
                JObj(<<P("a", JNum(1))>>)}
SessionTexts == {BadText} \cup {TextOf(d) : d \in SessionDocs}
PasteTexts == {TextOf(JObj(<<P("data", JArr(<<R1b>>))>>))}

\* what GET /api/data may answer with: records held by the backend
B1 == <<P("id", JStr("r1")), P("status", JStr("pending")), P("text", JStr("t"))>>
BackendData == {<<B1>>}

\* the transformation engine behind POST /api/transform
Registered == {"normalize_sql", "openai_format", "validate_bbox"}
\* the names the model calls handleTransform with
TransformTypes == {"normalize_sql", "unregistered"}

\* A transform is a pure function of the record. It keeps the id; when it
\* fails on a record (here: the record has no field x to work on) it marks the
\* failure on the record's status and leaves the other fields.
Fails(type, rec) == ~HasKey(rec, "x")
TransformRecord(type, rec) ==
    SetProp(rec, "status", JStr(IF Fails(type, rec) THEN "error" ELSE "completed"))

\* a batch: same length, same order, same ids
Engine(type, batch) == [i \in 1..Len(batch) |-> TransformRecord(type, batch[i])]

----------------------------------------------------------------------------
(* Helpers of the handlers *)

IdOf(rec) == GetProp(rec, "id")
IdsOf(records) == {IdOf(records[i]) : i \in 1..Len(records)}

\* records.filter(d => ids.has(d.id))
RECURSIVE FilterByIds(_, _)
FilterByIds(records, ids) ==
    IF records = <<>> THEN <<>>
    ELSE IF IdOf(Head(records)) \in ids
         THEN <<Head(records)>> \o FilterByIds(Tail(records), ids)
         ELSE FilterByIds(Tail(records), ids)

\* new Map(records.map(d => [d.id, d])).get(id): the last record with that id
MapHas(records, id) == \E i \in 1..Len(records) : IdOf(records[i]) = id
MapGet(records, id) ==
    records[CHOOSE i \in 1..Len(records) :
                /\ IdOf(records[i]) = id
                /\ \A j \in (i + 1)..Len(records) : IdOf(records[j]) # id]

\* prev.map(d => transformedMap.get(d.id) || d)
MergeById(prev, transformed) ==
    [i \in 1..Len(prev) |->
        IF MapHas(transformed, IdOf(prev[i])) THEN MapGet(transformed, IdOf(prev[i]))
        ELSE prev[i]]

\* String(v), for the values a record holds
RECURSIVE StringOf(_)
RECURSIVE Join(_)
StringOf(v) ==
    CASE v.k = "str"  -> v.s
      [] v.k = "num"  -> ToString(v.n)
      [] v.k = "bool" -> IF v.n = 1 THEN "true" ELSE "false"
      [] v.k = "arr"  -> Join(v.a)
      [] v.k = "obj"  -> "[object Object]"
      [] OTHER        -> v.k
\* Array.prototype.join: null and undefined elements give the empty string
Join(els) ==
    IF els = <<>> THEN ""
    ELSE LET one == IF Head(els).k \in {"null", "undefined"} THEN "" ELSE StringOf(Head(els))
         IN  IF Len(els) = 1 THEN one ELSE one \o "," \o Join(Tail(els))

\* The search terms of the model and, for each, the strings of the model that
\* include it (all strings of the model are lower case already).
SearchTerms == {"", "r1"}
Includes(str, term) == term = "" \/ (term = "r1" /\ str \in {"r1"})

Matches(rec, term) == \E i \in 1..Len(rec) : Includes(StringOf(rec[i].val), term)

RECURSIVE FilterByTerm(_, _)
FilterByTerm(records, term) ==
    IF records = <<>> THEN <<>>
    ELSE IF Matches(Head(records), term)
         THEN <<Head(records)>> \o FilterByTerm(Tail(records), term)
         ELSE FilterByTerm(Tail(records), term)

\* filteredData, which the effect on [data, searchTerm] keeps equal to this
filteredData == IF searchTerm = "" THEN data ELSE FilterByTerm(data, searchTerm)

\* requests in flight
FetchReq == [kind |-> "fetch", sel |-> {}, batch |-> <<>>, type |-> ""]
TransformReq(sel, batch, type) ==
    [kind |-> "transform", sel |-> sel, batch |-> batch, type |-> type]
NoReq == [kind |-> "none", sel |-> {}, batch |-> <<>>, type |-> ""]
RemoveAt(seq, i) == SubSeq(seq, 1, i - 1) \o SubSeq(seq, i + 1, Len(seq))

\* history: what the step that led here did. An ingestion, a request, a
\* response or an export records what it was given (json, req), what it
\* produced (out, resp) and the working set it started from (pre); every
\* other step records Idle.
Did(op, out, json, req, resp) ==
    [op |-> op, out |-> out, json |-> json, req |-> req, resp |-> resp, pre |-> data]
Idle == [op |-> "idle", out |-> "", json |-> JUndef, req |-> NoReq, resp |-> <<>>,
         pre |-> <<>>]

----------------------------------------------------------------------------
(* The state machine *)

\* after the first render and its effects: fetchData() has been called
Init ==
    /\ data = <<>>
    /\ allKeys = <<>>
    /\ keyDensity = EmptyDensity
    /\ selectedIds = {}
    /\ loading = TRUE
    /\ error = NoError
    /\ rawInput = EmptyText
    /\ viewMode = "ingest"
    /\ searchTerm = ""
    /\ pending = <<FetchReq>>
    /\ ops = 0
    /\ last = Did("mount", "", JUndef, FetchReq, <<>>)

\* JSON.parse(text); processIngestedData(json), inside the handler's try:
\* `failure` is the message the handler's catch sets
Ingest(op, text, failure) ==
    IF ParseThrows(text)
    THEN /\ error' = failure
         /\ last' = Did(op, "InvalidJSON", JUndef, NoReq, <<>>)
         /\ UNCHANGED <<data, keyDensity, allKeys, viewMode>>
    ELSE IF IngestThrows(JSONParse(text))
    THEN /\ error' = failure
         /\ last' = Did(op, "TypeError", JSONParse(text), NoReq, <<>>)
         /\ UNCHANGED <<data, keyDensity, allKeys, viewMode>>
    ELSE /\ Len(Locate(JSONParse(text))) > 0 => ops < MaxOps
         /\ \E stamps \in StampsOf(Len(Locate(JSONParse(text)))) :
                processIngestedData(JSONParse(text), stamps)
         /\ last' = Did(op, IF Len(Locate(JSONParse(text))) > 0 THEN "ok" ELSE "NoArrayFound",
                        JSONParse(text), NoReq, <<>>)

\* the textarea's onChange
setRawInput(text) ==
    /\ viewMode = "ingest"
    /\ text # rawInput
    /\ rawInput' = text
    /\ UNCHANGED <<data, allKeys, keyDensity, selectedIds, loading, error, viewMode,
                   searchTerm, pending, ops>>
    /\ last' = Idle

\* the "Process JSON" button, disabled while rawInput is empty
handlePasteIngest ==
    /\ viewMode = "ingest"
    /\ rawInput # EmptyText
    /\ Ingest("paste", rawInput, "Invalid JSON text.")
    /\ rawInput' = IF ParseThrows(rawInput) \/ IngestThrows(JSONParse(rawInput))
                   THEN rawInput ELSE EmptyText
    /\ ops' = IF error' = NoError THEN ops + 1 ELSE ops
    /\ UNCHANGED <<selectedIds, loading, searchTerm, pending>>

\* a file chosen or dropped: reader.onload parses and ingests its text
handleFileUpload(text) ==
    /\ viewMode = "ingest"
    /\ Ingest("upload", text, "Invalid JSON file.")
    /\ ops' = IF error' = NoError THEN ops + 1 ELSE ops
    /\ UNCHANGED <<selectedIds, loading, rawInput, searchTerm, pending>>

\* the Ingest / Inspect buttons of the navbar
setViewMode(mode) ==
    /\ viewMode # mode
    /\ viewMode' = mode
    /\ UNCHANGED <<data, allKeys, keyDensity, selectedIds, loading, error, rawInput,
                   searchTerm, pending, ops>>
    /\ last' = Idle

\* the Dismiss button of the error notice
dismissError ==
    /\ error # NoError
    /\ error' = NoError
    /\ UNCHANGED <<data, allKeys, keyDensity, selectedIds, loading, rawInput, viewMode,
                   searchTerm, pending, ops>>
    /\ last' = Idle

\* the Reload button (disabled while loading): fetchData up to its await
fetchData ==
    /\ viewMode = "list"
    /\ ~loading
    /\ Len(pending) < MaxPending
    /\ ops < MaxOps
    /\ ops' = ops + 1
    /\ loading' = TRUE
    /\ error' = NoError
    /\ pending' = Append(pending, FetchReq)
    /\ last' = Did("fetchData", "", JUndef, FetchReq, <<>>)
    /\ UNCHANGED <<data, allKeys, keyDensity, selectedIds, rawInput, viewMode,
                   searchTerm>>

\* fetchData after its await: the response, an ill-formed response, or a failure
fetchResponse(i, outcome, records) ==
    /\ i \in 1..Len(pending)
    /\ pending[i].kind = "fetch"
    /\ pending' = RemoveAt(pending, i)
    /\ loading' = FALSE
    /\ data' = IF outcome = "ok" THEN records ELSE data
    /\ error' = IF outcome = "failed" THEN "Failed to fetch data from backend." ELSE error
    /\ last' = Did("fetchResponse", outcome, JUndef, pending[i],
                   IF outcome = "ok" THEN records ELSE <<>>)
    /\ UNCHANGED <<allKeys, keyDensity, selectedIds, rawInput, viewMode, searchTerm, ops>>

\* a Transform menu entry: handleTransform(type) up to its await
handleTransform(type) ==
    /\ viewMode = "list"
    /\ ~(selectedIds = {} /\ Len(data) = 0)
    /\ Len(pending) < MaxPending
    /\ ops < MaxOps
    /\ ops' = ops + 1
    /\ LET itemsToTransform ==
               IF selectedIds # {} THEN FilterByIds(data, selectedIds) ELSE data
           req == TransformReq(selectedIds, itemsToTransform, type)
       IN  /\ pending' = Append(pending, req)
           /\ last' = Did("handleTransform", "", JUndef, req, <<>>)
    /\ loading' = TRUE
    /\ UNCHANGED <<data, allKeys, keyDensity, selectedIds, error, rawInput, viewMode,
                   searchTerm>>

\* Merged without the merge by id: the response replaces the working set
MergedReplacing(prev, sel, transformed) == transformed

\* Merged without the replacement: the response is always merged by id
MergedMerging(prev, sel, transformed) == MergeById(prev, transformed)

\* what the two setData calls leave when the response's data is the array
\* `transformed`: the merge by id, then the replacement when nothing was selected
Merged(prev, sel, transformed) ==
    IF sel = {} THEN transformed ELSE MergeById(prev, transformed)

\* data after the response: only a response that carries an array touches it
DataAfterTransform(prev, sel, outcome, transformed) ==
    IF outcome = "ok" THEN Merged(prev, sel, transformed) ELSE prev

\* ErrorAfterTransform with a catch block that signals nothing
ErrorAfterTransformSilent(prev, outcome) == prev

\* error after the response: the catch block sets it, nothing else does
ErrorAfterTransform(prev, outcome) ==
    IF outcome = "failed" THEN "Transformation failed." ELSE prev

\* a response handler that clears the selection once the transform is done
transformResponseClearing(i, outcome) ==
    /\ i \in 1..Len(pending)
    /\ pending[i].kind = "transform"
    /\ pending[i].type \notin Registered => outcome = "failed"
    /\ pending' = RemoveAt(pending, i)
    /\ loading' = FALSE
    /\ LET transformed == Engine(pending[i].type, pending[i].batch)
       IN  /\ data' = DataAfterTransform(data, pending[i].sel, outcome, transformed)
           /\ last' = Did("transformResponse", outcome, JUndef, pending[i],
                          IF outcome = "ok" THEN transformed ELSE <<>>)
    /\ error' = ErrorAfterTransform(error, outcome)
    /\ selectedIds' = {}
    /\ UNCHANGED <<allKeys, keyDensity, rawInput, viewMode, searchTerm, ops>>

\* handleTransform after its await. The engine rejects a name it does not know,
\* any request can fail, and a response may lack the data array.
transformResponse(i, outcome) ==
    /\ i \in 1..Len(pending)
    /\ pending[i].kind = "transform"
    /\ pending[i].type \notin Registered => outcome = "failed"
    /\ pending' = RemoveAt(pending, i)
    /\ loading' = FALSE
    /\ LET transformed == Engine(pending[i].type, pending[i].batch)
       IN  /\ data' = DataAfterTransform(data, pending[i].sel, outcome, transformed)
           /\ last' = Did("transformResponse", outcome, JUndef, pending[i],
                          IF outcome = "ok" THEN transformed ELSE <<>>)
    /\ error' = ErrorAfterTransform(error, outcome)
    /\ UNCHANGED <<allKeys, keyDensity, selectedIds, rawInput, viewMode, searchTerm, ops>>

\* JSON.stringify(v) read back: a property whose value is undefined is left
\* out, an undefined element of an array is written as null
RECURSIVE Written(_)
RECURSIVE WrittenProps(_)
Written(v) ==
    CASE v.k = "undefined" -> JNull
      [] v.k = "arr" -> JArr([i \in 1..Len(v.a) |-> Written(v.a[i])])
      [] v.k = "obj" -> JObj(WrittenProps(v.o))
      [] OTHER -> v
WrittenProps(ps) ==
    IF ps = <<>> THEN <<>>
    ELSE IF Head(ps).val.k = "undefined" THEN WrittenProps(Tail(ps))
         ELSE <<P(Head(ps).key, Written(Head(ps).val))>> \o WrittenProps(Tail(ps))
JSONStringify(records) == TextOf(Written(JArr([i \in 1..Len(records) |-> JObj(records[i])])))

\* itemsToExport taken from the rows the list shows
itemsToExportVisible ==
    IF selectedIds # {} THEN FilterByIds(filteredData, selectedIds) ELSE filteredData

\* the records handleExport writes
itemsToExport ==
    IF selectedIds # {} THEN FilterByIds(data, selectedIds) ELSE data

\* the Export button: it returns early when there is nothing to export, and
\* otherwise downloads a file whose document last.json records
handleExport ==
    /\ viewMode = "list"
    /\ last' = IF Len(itemsToExport) = 0
               THEN Did("handleExport", "none", JUndef, NoReq, <<>>)
               ELSE Did("handleExport", "ok", JSONParse(JSONStringify(itemsToExport)),
                        NoReq, itemsToExport)
    /\ UNCHANGED <<data, allKeys, keyDensity, selectedIds, loading, error, rawInput,
                   viewMode, searchTerm, pending, ops>>

\* a click on a row of the list
onToggleSelect(id) ==
    /\ viewMode = "list"
    /\ id \in IdsOf(filteredData)
    /\ selectedIds' = IF id \in selectedIds THEN selectedIds \ {id}
                      ELSE selectedIds \cup {id}
    /\ UNCHANGED <<data, allKeys, keyDensity, loading, error, rawInput, viewMode,
                   searchTerm, pending, ops>>
    /\ last' = Idle

\* the header checkbox: it shows allSelected and sends the opposite
allSelected ==
    Len(filteredData) > 0 /\ \A i \in 1..Len(filteredData) : IdOf(filteredData[i]) \in selectedIds

onSelectAll ==
    /\ viewMode = "list"
    /\ selectedIds' = IF ~allSelected THEN selectedIds \cup IdsOf(filteredData)
                      ELSE selectedIds \ IdsOf(filteredData)
    /\ UNCHANGED <<data, allKeys, keyDensity, loading, error, rawInput, viewMode,
                   searchTerm, pending, ops>>
    /\ last' = Idle

\* the search box
onSearch(term) ==
    /\ viewMode = "list"
    /\ term # searchTerm
    /\ searchTerm' = term
    /\ UNCHANGED <<data, allKeys, keyDensity, selectedIds, loading, error, rawInput,
                   viewMode, pending, ops>>
    /\ last' = Idle

Outcomes == {"ok", "illformed", "failed"}

Next ==
    \/ \E text \in PasteTexts \cup {EmptyText} : setRawInput(text)
    \/ handlePasteIngest
    \/ \E text \in SessionTexts : handleFileUpload(text)
    \/ \E mode \in {"list", "ingest"} : setViewMode(mode)
    \/ dismissError
    \/ fetchData
    \/ \E i \in 1..Len(pending), outcome \in Outcomes :
            \E records \in (IF outcome = "ok" THEN BackendData ELSE {<<>>}) :
                fetchResponse(i, outcome, records)
    \/ \E type \in TransformTypes : handleTransform(type)
    \/ \E i \in 1..Len(pending), outcome \in Outcomes : transformResponse(i, outcome)
    \/ handleExport
    \/ \E id \in IdsOf(filteredData) : onToggleSelect(id)
    \/ onSelectAll
    \/ \E term \in SearchTerms : onSearch(term)

Spec == Init /\ [][Next]_vars

\* Ingestion alone, on every text of AllTexts: the text is in the paste area
\* and the button is pressed.
InitIngest ==
    /\ Init!1 /\ Init!2 /\ Init!3 /\ Init!4 /\ Init!5 /\ Init!6
    /\ rawInput \in AllTexts
    /\ Init!8 /\ Init!9 /\ Init!10 /\ Init!11 /\ Init!12
NextIngest == handlePasteIngest
SpecIngest == InitIngest /\ [][NextIngest]_vars

----------------------------------------------------------------------------
(* Claims about the transform response *)

TransformDone(outcomes) == last.op = "transformResponse" /\ last.out \in outcomes
PartialOk == TransformDone({"ok"}) /\ last.req.sel # {}
FullOk    == TransformDone({"ok"}) /\ last.req.sel = {}

\* C1: after the response of a transform issued with a non-empty selection is
\* merged, the working set has the length and the ids it had before, in the
\* same order; a record whose id is not in that selection is what it was; a
\* record whose id occurs in the engine's output is the engine's (last) output
\* record with that id.
C1_PartialTransformMerges ==
    PartialOk =>
        /\ Len(data) = Len(last.pre)
        /\ \A i \in 1..Len(data) :
              /\ IdOf(data[i]) = IdOf(last.pre[i])
              /\ IdOf(last.pre[i]) \notin last.req.sel => data[i] = last.pre[i]
              /\ \A j \in 1..Len(last.resp) :
                    (/\ IdOf(last.resp[j]) = IdOf(last.pre[i])
                     /\ \A m \in (j + 1)..Len(last.resp) :
                            IdOf(last.resp[m]) # IdOf(last.pre[i]))
                        => data[i] = last.resp[j]

\* a partial transform has changed a selected record next to an unselected one
C1_Witness ==
    /\ PartialOk
    /\ \E i \in 1..Len(data) : IdOf(data[i]) \notin last.req.sel
    /\ \E i \in 1..Len(data) :
          /\ data[i] # last.pre[i]
          /\ \E j \in 1..Len(last.resp) : data[i] = last.resp[j]

\* C2: after the response of a transform issued with an empty selection (and
\* so on a non-empty working set), the working set is the engine's output
\* sequence itself.
C2_FullTransformReplaces ==
    FullOk => /\ Len(last.req.batch) > 0
              /\ data = last.resp

\* a full transform whose result differs from merging its output by id
C2_Witness ==
    /\ FullOk
    /\ Len(last.pre) > 0
    /\ data # MergeById(last.pre, last.resp)

\* C3 as claimed: every rejected transform leaves the working set as it was
\* and signals an error.
C3_RejectedSignalsError ==
    TransformDone({"failed", "illformed"}) => data = last.pre /\ error # NoError

\* C3 amended: a rejected transform leaves the working set as it was; a failed
\* request (an unregistered name among them) sets the error, a response
\* without a data array leaves the error as it was.
C3_RejectedLeavesData ==
    [][(last'.op = "transformResponse" /\ last'.out # "ok") =>
          /\ data' = data
          /\ last'.out = "failed" => error' = "Transformation failed."
          /\ last'.out = "illformed" => error' = error
          /\ last'.req.type \notin Registered => last'.out = "failed"]_vars

\* an unregistered name was rejected while the working set held records
C3_Witness ==
    /\ TransformDone({"failed"})
    /\ last.req.type \notin Registered
    /\ Len(data) > 0
    /\ error = "Transformation failed."

----------------------------------------------------------------------------
(* Claims about ingestion *)

IngestDone(outcomes) == last.op \in {"paste", "upload"} /\ last.out \in outcomes
IngestOk == IngestDone({"ok"})
\* the text parsed: last.json is the document given to processIngestedData
IngestParsed == IngestDone({"ok", "NoArrayFound", "TypeError"})

\* C4: an ingestion that fails (the text does not parse, no non-empty array
\* is located, or an item cannot be flattened) leaves the working set, the
\* key density and the key order as they were and sets the error, whatever
\* ingestions and transforms came before.
C4_IngestFailureKeepsState ==
    [][(last'.op \in {"paste", "upload"} /\ last'.out # "ok") =>
          /\ data' = data
          /\ keyDensity' = keyDensity
          /\ allKeys' = allKeys
          /\ error' # NoError]_vars

\* an ingestion failed on a working set that an earlier ingestion loaded and a
\* transform changed
C4_Witness ==
    /\ IngestDone({"InvalidJSON", "NoArrayFound"})
    /\ Len(data) > 0
    /\ allKeys # <<>>
    /\ \E i \in 1..Len(data) : GetProp(data[i], "status") = JStr("completed")
    /\ error # NoError

\* json is an object with an array under `key`
HasArrayUnder(json, key) == json.k = "obj" /\ IsArray(GetProp(json.o, key))
\* the elements of the first array-valued property of the object json, in
\* enumeration order; <<>> when it has none
FirstArrayValued(json) ==
    IF \E i \in 1..Len(json.o) : IsArray(json.o[i].val)
    THEN LET first == CHOOSE i \in 1..Len(json.o) :
                          /\ IsArray(json.o[i].val)
                          /\ \A j \in 1..Len(json.o) : IsArray(json.o[j].val) => i <= j
         IN  json.o[first].val.a
    ELSE <<>>

FirstRuleArray(json) ==
    IF IsArray(json) THEN json.a
    ELSE IF json.k # "obj" THEN <<>>
    ELSE IF \E c \in 1..Len(candidates) : HasArrayUnder(json, candidates[c])
    THEN LET c == CHOOSE c \in 1..Len(candidates) :
                      /\ HasArrayUnder(json, candidates[c])
                      /\ \A b \in 1..(c - 1) : ~HasArrayUnder(json, candidates[b])
         IN  GetProp(json.o, candidates[c]).a
    ELSE FirstArrayValued(json)

\* C6: the locator's rules apply in order and the first that matches decides:
\* its array is the one ingested, and when that array is empty the ingestion
\* ends in NoArrayFound without a later rule being consulted.
C6_FirstMatchingRuleWins ==
    IngestParsed =>
        /\ Locate(last.json) = FirstRuleArray(last.json)
        /\ Len(FirstRuleArray(last.json)) = 0 => last.out = "NoArrayFound"

\* C7: after a successful ingestion no two records have the same id, and the
\* working set has one record per located item, in the items' order.
C7_IdsUnique ==
    IngestOk =>
        /\ Len(data) = Len(Locate(last.json))
        /\ \A i \in 1..Len(data) :
              data[i] = SetProp(flattenObject(Locate(last.json)[i], ""), "id", IdOf(data[i]))
        /\ \A i, j \in 1..Len(data) : IdOf(data[i]) = IdOf(data[j]) => i = j

\* the id field of a located item, when it has one that is a string or a number
HasSourceId(item) ==
    item.k = "obj" /\ HasKey(item.o, "id") /\ GetProp(item.o, "id").k \in {"str", "num"}
IsSynthesized(id, idx) == \E stamp \in 0..MaxClock : id = JStr(GenId(idx, stamp))

\* C8: an item's own id field (any string or number) is the record's id; an
\* id is synthesized only for an item without an id field.
C8_SourceIdKept ==
    IngestOk =>
        \A i \in 1..Len(data) :
            LET item == Locate(last.json)[i]
            IN  /\ HasSourceId(item) => IdOf(data[i]) = GetProp(item.o, "id")
                /\ IsSynthesized(IdOf(data[i]), i - 1)
                      => ~(item.k = "obj" /\ HasKey(item.o, "id"))

\* the keys of the working set's records, and the number of records with key
RecordKeys == UNION {KeySet(data[i]) : i \in 1..Len(data)}
CountOf(key) == Cardinality({i \in 1..Len(data) : HasKey(data[i], key)})
\* the working set of [{"x":1},{"x":2}]: two records with distinct synthesized ids
TwoSynthesized ==
    /\ Len(data) = 2
    /\ IsSynthesized(IdOf(data[1]), 0)
    /\ IsSynthesized(IdOf(data[2]), 1)
    /\ IdOf(data[1]) # IdOf(data[2])

\* C9 as claimed: KeyDensity counts the records containing each key, and for
\* [{"x":1},{"x":2}] it is exactly {x: 2}.
C9_DensityOnlyX ==
    IngestOk =>
        /\ DOMAIN keyDensity = RecordKeys
        /\ \A key \in DOMAIN keyDensity : keyDensity[key] = CountOf(key)
        /\ last.json = JArr(<<Ix1, Ix2>>)
              => TwoSynthesized /\ keyDensity = [key \in {"x"} |-> 2]

\* C9 amended: after a successful ingestion KeyDensity maps each key of a
\* record, `id` included, to the number of records that contain it; for
\* [{"x":1},{"x":2}] the working set has two records with distinct
\* synthesized ids and KeyDensity is exactly {x: 2, id: 2}.
C9_DensityCountsRecords ==
    IngestOk =>
        /\ DOMAIN keyDensity = RecordKeys
        /\ \A key \in DOMAIN keyDensity : keyDensity[key] = CountOf(key)
        /\ last.json = JArr(<<Ix1, Ix2>>)
              => TwoSynthesized /\ keyDensity = [key \in {"x", "id"} |-> 2]

\* [{"x":1},{"x":2}] was ingested and both keys are counted twice
C9_Witness ==
    /\ IngestOk
    /\ last.json = JArr(<<Ix1, Ix2>>)
    /\ TwoSynthesized
    /\ keyDensity["x"] = 2
    /\ keyDensity["id"] = 2

\* key a belongs before key b: by place in the priority list, then by
\* descending density, then lexicographically
Before(a, b) ==
    LET pA == IndexOf(priority, a)
        pB == IndexOf(priority, b)
    IN  IF pA # -1 /\ pB # -1 THEN pA < pB
        ELSE IF pA # -1 THEN TRUE
        ELSE IF pB # -1 THEN FALSE
        ELSE \/ CountOf(a) > CountOf(b)
             \/ CountOf(a) = CountOf(b) /\ Place(a) < Place(b)

\* C10: after a successful ingestion KeyOrder holds every key of a record
\* except `id` and `status`, each once, priority keys first in the priority
\* list's order, then the others by descending density, ties lexicographic.
C10_KeyOrderSorted ==
    IngestOk =>
        /\ {allKeys[i] : i \in 1..Len(allKeys)} = RecordKeys \ {"id", "status"}
        /\ \A i, j \in 1..Len(allKeys) : allKeys[i] = allKeys[j] => i = j
        /\ \A i, j \in 1..Len(allKeys) : i < j => Before(allKeys[i], allKeys[j])

\* a priority key, a denser key and a lexicographic tie, in an order that is
\* not the order the keys were first seen in
C10_Witness ==
    /\ IngestOk
    /\ last.json = JArr(<<Inest, Ir2>>)
    /\ KeysOf(data[1]) = <<"input.text", "tags", "id", "x">>
    /\ KeysOf(data[2]) = <<"y", "id", "x">>
    /\ allKeys = <<"input.text", "x", "tags", "y">>

----------------------------------------------------------------------------
(* Claims about export and selection *)

Exported == last.op = "handleExport" /\ last.out = "ok"
\* the positions of the working set's records whose id is in ids, and the
\* k-th of them
PositionsIn(ids) == {i \in 1..Len(data) : IdOf(data[i]) \in ids}
NthPosition(ids, k) ==
    CHOOSE i \in PositionsIn(ids) : Cardinality({j \in PositionsIn(ids) : j < i}) = k - 1
\* the document that holds exactly the working set's records with an id in
\* ids, in the working set's order
DocumentOf(ids) ==
    JArr([k \in 1..Cardinality(PositionsIn(ids)) |-> JObj(data[NthPosition(ids, k)])])

\* C11: with a non-empty selection the exported file holds exactly the
\* working set's records whose id is selected, unmodified and in working-set
\* order; with an empty selection it holds every record of the working set,
\* whatever the search term; no file is written only when there is no such
\* record; an export changes neither the working set nor the selection.
C11_ExportSelectedOrAll ==
    /\ [](Exported =>
            /\ selectedIds # {} => last.json = DocumentOf(selectedIds)
            /\ selectedIds = {} => last.json = DocumentOf(IdsOf(data))
            /\ selectedIds = {} => Len(last.json.a) = Len(data))
    /\ []((last.op = "handleExport" /\ last.out = "none")
            => PositionsIn(IF selectedIds # {} THEN selectedIds ELSE IdsOf(data)) = {})
    /\ [][last'.op = "handleExport" => data' = data /\ selectedIds' = selectedIds]_vars

\* a selected record that the search hides was exported without the
\* unselected record that the search shows
C11_Witness ==
    /\ Exported
    /\ selectedIds # {}
    /\ searchTerm # ""
    /\ Len(last.json.a) = 1
    /\ Len(data) = 2
    /\ \A i \in 1..Len(filteredData) : JObj(filteredData[i]) # last.json.a[1]

----------------------------------------------------------------------------
(* Claims about the flattener, on the items an ingestion flattens *)

\* no value of the record is a plain object
IsFlatRecord(ps) == \A i \in 1..Len(ps) : ~IsPlainObject(ps[i].val)

\* C12: flattening a record none of whose values is a plain object gives the
\* record itself, same keys, same values, same order (dotted keys, arrays and
\* null included), and flattening the flattened form of any item gives the
\* flattened form again.
C12_FlattenIdempotent ==
    IngestOk =>
        \A i \in 1..Len(data) :
            LET item == Locate(last.json)[i]
                flat == flattenObject(item, "")
            IN  /\ (item.k = "obj" /\ IsFlatRecord(item.o)) => flat = item.o
                /\ flattenObject(JObj(flat), "") = flat
                /\ IsFlatRecord(data[i]) => flattenObject(JObj(data[i]), "") = data[i]
                /\ (item.k = "obj" /\ IsFlatRecord(item.o) /\ Truthy(Member(item, "id")))
                      => data[i] = item.o

\* a flat item with a dotted key, an array and a null was ingested as it is,
\* next to an item that had to be flattened
C12_Witness ==
    /\ IngestOk
    /\ last.json = JArr(<<Iflat, Icoll>>)
    /\ data[1] = Iflat.o
    /\ ~IsFlatRecord(Icoll.o)
    /\ HasKey(data[2], "a.b")

\* the values of an object that are not plain objects, each with its full
\* dotted path; arrays are values, not paths
RECURSIVE Leaves(_, _)
Leaves(ps, pre) ==
    UNION {IF IsPlainObject(ps[i].val)
           THEN Leaves(ps[i].val.o, pre \o ps[i].key \o ".")
           ELSE {<<pre \o ps[i].key, ps[i].val>>} : i \in 1..Len(ps)}

\* C13: the flattened form of an item holds no plain object; a nested plain
\* object under key a gives only keys a.<child> and no key a; every entry is
\* an array, primitive or null of the item, unmodified, under its full dotted
\* path, and every such path is a key; {"id":"r1","a":{"b":2}} gives a.b = 2
\* and no a.
C13_FlatRecordHasNoObjects ==
    IngestOk =>
        \A i \in 1..Len(data) :
            LET item == Locate(last.json)[i]
                flat == flattenObject(item, "")
            IN  item.k = "obj" =>
                  /\ IsFlatRecord(flat)
                  /\ \A k \in 1..Len(flat) : <<flat[k].key, flat[k].val>> \in Leaves(item.o, "")
                  /\ \A leaf \in Leaves(item.o, "") : HasKey(flat, leaf[1])
                  /\ \A k \in 1..Len(item.o) :
                        IsPlainObject(item.o[k].val) => ~HasKey(flat, item.o[k].key)
                  /\ \A k \in 1..Len(data[i]) :
                        data[i][k].key # "id" => \E m \in 1..Len(flat) : flat[m] = data[i][k]
                  /\ item = Ir1 => /\ GetProp(data[i], "a.b") = JNum(2)
                                   /\ ~HasKey(data[i], "a")

\* {"id":"r1","a":{"b":2}} was ingested next to an item holding an array of
\* objects under a nested path's sibling
C13_Witness ==
    /\ IngestOk
    /\ last.json = JArr(<<Ir1, Inest>>)
    /\ KeysOf(data[1]) = <<"id", "a.b">>
    /\ GetProp(data[1], "a.b") = JNum(2)
    /\ GetProp(data[2], "input.text") = JStr("q")
    /\ GetProp(data[2], "tags") = JArr(<<JObj(<<P("x", JNum(1))>>)>>)

\* the three selection actions, as changes of the selection
Toggled == \E id \in IdsOf(filteredData) :
               selectedIds' = IF id \in selectedIds THEN selectedIds \ {id}
                              ELSE selectedIds \cup {id}
SelectedVisible == selectedIds' = selectedIds \cup IdsOf(filteredData)
DeselectedVisible == selectedIds' = selectedIds \ IdsOf(filteredData)

\* C14: a step that changes the selection is a toggle of one visible id, a
\* select-all or a deselect-all of the visible records, and it leaves the
\* working set (and the requests in flight) as they were; a transform
\* request, a transform response of any outcome and an export leave the
\* selection as it was.
C14_SelectionFrame ==
    [][/\ selectedIds' # selectedIds =>
             /\ Toggled \/ SelectedVisible \/ DeselectedVisible
             /\ data' = data
             /\ pending' = pending
             /\ last'.op = "idle"
       /\ last'.op \in {"handleTransform", "transformResponse", "handleExport"}
             => selectedIds' = selectedIds]_vars

\* a partial transform changed the working set and the selection it was
\* issued with is still the selection
C14_Witness ==
    /\ PartialOk
    /\ selectedIds = last.req.sel
    /\ data # last.pre
    /\ Len(data) = 2

\* the selection without its stale ids: the ids of records in the working set
LiveSelection == selectedIds \cap IdsOf(data)

\* C15: a transform request and an export act as they would with the
\* selection restricted to the ids in the working set: the batch sent, and the
\* document exported, hold the working set's records with a live selected id,
\* or the whole working set when no selected id is live.
C15_StaleIdsAbsent ==
    /\ last.op = "handleTransform" =>
            last.req.batch = (IF LiveSelection # {} THEN FilterByIds(data, LiveSelection)
                              ELSE data)
    /\ (last.op = "handleExport" /\ Len(data) > 0) =>
            /\ last.out = "ok"
            /\ last.json = DocumentOf(IF LiveSelection # {} THEN LiveSelection
                                      ELSE IdsOf(data))

----------------------------------------------------------------------------
(* Claims about responses that arrive late *)

\* C16: when a successful ingestion has just completed while a request was in
\* flight, processing that request's response leaves the working set exactly
\* the newly ingested records.
C16_LateResponseKeepsIngested ==
    [][(/\ IngestOk
        /\ pending # <<>>
        /\ last'.op \in {"fetchResponse", "transformResponse"})
          => data' = data]_vars

====
